---- MODULE Spec2Model ----
(***************************************************************************)
(* Model of the batch image converter: the upload queue and the run loop   *)
(* of App (startProcessing, processFiles, clearAll, the remove button),    *)
(* the packaging of results (packageZip) and the base-image geometry of    *)
(* processImage.                                                           *)
(*                                                                         *)
(* An action is one synchronous segment of a handler: the code between two *)
(* awaits runs without interleaving, and user events are handled between   *)
(* such segments.                                                          *)
(***************************************************************************)
EXTENDS Integers, Sequences, FiniteSets, TLC

\* ------------------------------------------------------------------ bounds

\* Total number of files the user uploads in one behaviour (ids 1..MaxIds).
MaxIds == 3

\* Longest queue of the progress-loop specification.
MaxTotal == 200

\* Largest small pixel dimension tried by the geometry specification.
MaxDim == 3

\* ------------------------------------------------------------------ state

VARIABLES
    files,          \* useState files: the queue shown to the user
    config,         \* useState config
    isProcessing,   \* useState isProcessing
    progress,       \* useState progress
    summary,        \* useState summary (Null or a ProcessSummary)
    pc,             \* where startProcessing is suspended
    updatedFiles,   \* startProcessing's local copy of the queue
    runConfig,      \* the config captured by startProcessing's closure
    i,              \* loop index of startProcessing (1-based)
    successCount,   \* local successCount
    failCount,      \* local failCount
    nextId,         \* ids handed out so far (fresh id per upload)
    saved,          \* saveAs calls of the current run, in order
    zipBuilt,       \* packageZip calls of the current run
    threw,          \* what the try block of lines 158-172 caught in this run
    outcome,        \* how processImage settled for each item of the current run
    progressLog,    \* setProgress calls made by the current run, in order
    revoked,        \* ids of the items whose preview URL has been revoked
    input,          \* AssistantPanel: useState input
    isLoading,      \* AssistantPanel: useState isLoading
    messages,       \* AssistantPanel: useState messages
    outstanding,    \* generateAIAdvice calls that have not returned yet
    pin,            \* input of the pure function under study
    pout            \* its result

vars == <<files, config, isProcessing, progress, summary, pc, updatedFiles,
          runConfig, i, successCount, failCount, nextId, saved,
          zipBuilt, threw, outcome, progressLog, revoked,
          input, isLoading, messages, outstanding, pin, pout>>

\* the state of App and of a run of startProcessing
queueVars == <<files, config, isProcessing, progress, summary, pc, updatedFiles,
               runConfig, i, successCount, failCount, nextId, saved,
               zipBuilt, threw, outcome, progressLog, revoked>>

\* the state of AssistantPanel
panelVars == <<input, isLoading, messages, outstanding>>

appVars == <<queueVars, panelVars>>

\* null / undefined: the absent value of an optional field
Null == <<>>

\* the errorMessage of a failed item
ConversionFailed == <<"Conversion failed">>

\* ------------------------------------------------------------------ helpers

RECURSIVE Pow2(_)
Pow2(e) == IF e = 0 THEN 1 ELSE 2 * Pow2(e - 1)

\* The 53-bit significand of an IEEE-754 double.
MantissaBits == 53

\* b with 2^-b <= k/n < 2^(1-b), for 0 < k < n.
RECURSIVE BinaryExponent(_, _, _)
BinaryExponent(k, n, b) ==
    IF k * Pow2(b) >= n THEN b ELSE BinaryExponent(k, n, b + 1)

\* (r * 2^steps) mod n by repeated doubling: the remainder left by the long
\* division k / n after `steps` binary digits.
RECURSIVE DoubleRem(_, _, _)
DoubleRem(r, n, steps) ==
    IF steps = 0 THEN r ELSE DoubleRem((2 * r) % n, n, steps - 1)

\* The double division k / n, 0 < k < n, rounded to nearest-even: the sign
\* of (k/n - fl(k/n)) and the remainder r with
\*   k/n = M / 2^(52+b) + r / (n * 2^(52+b)),  2^52 <= M < 2^53.
DivisionError(k, n) ==
    LET b == BinaryExponent(k, n, 1)
        rPrev == DoubleRem(k, n, MantissaBits - 2 + b)
        r == (2 * rPrev) % n
        mOdd == 2 * rPrev >= n
        up == 2 * r > n \/ (2 * r = n /\ mOdd)
    IN  [b |-> b, r |-> r,
         sign |-> IF r = 0 THEN 0 ELSE IF up THEN -1 ELSE 1]

\* Math.round(x) of the exact rational x = num / den: nearest integer, halves up.
RoundHalfUp(num, den) == (2 * num + den) \div (2 * den)

\* Math.round((k / n) * 100) in double arithmetic, 0 <= k <= n, n >= 1.
\* The two roundings (of the quotient, then of the product) move the value by
\* less than 2^-45, so they change the result only when 100k/n is exactly
\* m + 1/2: then the product is below m + 1/2 (and Math.round gives m) iff
\* the quotient was rounded down by more than half a unit in the last place
\* of m + 1/2, which is the comparison made on e below.
MathRoundPercent(k, n) ==
    IF k = 0 THEN 0
    ELSE IF k = n THEN 100
    ELSE IF (200 * k) % (2 * n) # n THEN RoundHalfUp(100 * k, n)
    ELSE LET m == (100 * k) \div n
             d == DivisionError(k, n)
             \* 2^a <= m + 1/2 < 2^(a+1); c = a + b - 1 is 5 or 6
             c == IF (2 * m + 1) * Pow2(d.b) < 256 THEN 5 ELSE 6
             \* m + 1/2 = 2^a only for m = 0, where the spacing below halves
             e == IF m = 0 THEN 200 * d.r ELSE 100 * d.r
         IN  IF d.sign = 1 /\ e > n * Pow2(c) THEN m ELSE m + 1


\* ------------------------------------------------------------------ numbers

\* JavaScript numbers are IEEE-754 doubles.  The watermark geometry is
\* computed on them as the code does, every operation rounding to the nearest
\* double (ties to even).  A natural number of any size is a sequence of
\* limbs, least significant first, without leading zero limbs.
LimbBits == 15
LimbBase == 32768

\* the naturals, as sequences of limbs
Big == Seq(Nat)

\* 2^k for the k that occur within one limb
LimbPow2 == [k \in 0..LimbBits |-> Pow2(k)]

BigTrim[a \in Big] ==
    IF a = <<>> THEN a
    ELSE IF a[Len(a)] = 0 THEN BigTrim[SubSeq(a, 1, Len(a) - 1)]
    ELSE a

BigOfNat[n \in Nat] == IF n = 0 THEN <<>> ELSE <<n % LimbBase>> \o BigOfNat[n \div LimbBase]

BigToNat[a \in Big] == IF a = <<>> THEN 0 ELSE a[1] + LimbBase * BigToNat[Tail(a)]

BigLimb(a, k) == IF k <= Len(a) THEN a[k] ELSE 0

BigAddFrom[a \in Big, b \in Big, k \in Nat, carry \in Nat] ==
    IF k > Len(a) /\ k > Len(b)
    THEN IF carry = 0 THEN <<>> ELSE <<carry>>
    ELSE LET s == BigLimb(a, k) + BigLimb(b, k) + carry
         IN  <<s % LimbBase>> \o BigAddFrom[a, b, k + 1, s \div LimbBase]

BigAdd[a \in Big, b \in Big] == BigAddFrom[a, b, 1, 0]

\* a - b for a >= b
BigSubFrom[a \in Big, b \in Big, k \in Nat, borrow \in Nat] ==
    IF k > Len(a) THEN <<>>
    ELSE LET d == a[k] - BigLimb(b, k) - borrow
         IN  <<IF d < 0 THEN d + LimbBase ELSE d>>
             \o BigSubFrom[a, b, k + 1, IF d < 0 THEN 1 ELSE 0]

BigSub[a \in Big, b \in Big] == BigTrim[BigSubFrom[a, b, 1, 0]]

BigCmpFrom[a \in Big, b \in Big, k \in Nat] ==
    IF k = 0 THEN 0
    ELSE IF a[k] > b[k] THEN 1
    ELSE IF a[k] < b[k] THEN -1
    ELSE BigCmpFrom[a, b, k - 1]

\* the sign of a - b
BigCmp[a \in Big, b \in Big] ==
    IF Len(a) > Len(b) THEN 1
    ELSE IF Len(a) < Len(b) THEN -1
    ELSE BigCmpFrom[a, b, Len(a)]

BigMulLimbFrom[a \in Big, d \in Nat, k \in Nat, carry \in Nat] ==
    IF k > Len(a)
    THEN IF carry = 0 THEN <<>> ELSE <<carry>>
    ELSE LET p == a[k] * d + carry
         IN  <<p % LimbBase>> \o BigMulLimbFrom[a, d, k + 1, p \div LimbBase]

\* a * d for 0 <= d < LimbBase
BigMulLimb[a \in Big, d \in Nat] == IF d = 0 THEN <<>> ELSE BigMulLimbFrom[a, d, 1, 0]

BigShiftLimbs[a \in Big, n \in Nat] == IF a = <<>> THEN a ELSE [k \in 1..n |-> 0] \o a

BigMulFrom[a \in Big, b \in Big, k \in Nat] ==
    IF k > Len(b) THEN <<>>
    ELSE BigAdd[BigShiftLimbs[BigMulLimb[a, b[k]], k - 1], BigMulFrom[a, b, k + 1]]

BigMul[a \in Big, b \in Big] == BigMulFrom[a, b, 1]

\* a * 2^bits
BigShl[a \in Big, bits \in Nat] ==
    BigShiftLimbs[BigMulLimb[a, LimbPow2[bits % LimbBits]], bits \div LimbBits]

\* floor(a / 2^bits)
BigShr[a \in Big, bits \in Nat] ==
    LET n == bits \div LimbBits
        r == bits % LimbBits
        b == SubSeq(a, n + 1, Len(a))
    IN  BigTrim[[k \in 1..Len(b) |->
                   (b[k] \div LimbPow2[r]) + (BigLimb(b, k + 1) % LimbPow2[r]) * LimbPow2[LimbBits - r]]]

\* the number of bits of n < LimbBase
BitLen[n \in Nat] == CHOOSE k \in 0..LimbBits : n < LimbPow2[k] /\ (k = 0 \/ n >= LimbPow2[k - 1])

BigBitLen[a \in Big] == IF a = <<>> THEN 0 ELSE (Len(a) - 1) * LimbBits + BitLen[a[Len(a)]]

BigOdd[a \in Big] == a # <<>> /\ a[1] % 2 = 1

\* the largest of the digits d + u * unit, u in 0..31, whose product with b
\* is at most r
DigitStep[r \in Big, b \in Big, d \in Nat, unit \in Nat] ==
    LET fits == {u \in 0..31 : BigCmp[BigMulLimb[b, d + u * unit], r] <= 0}
    IN  d + unit * (CHOOSE u \in fits : \A v \in fits : v <= u)

\* the largest digit d < LimbBase with b * d <= r, for r < b * LimbBase: five
\* bits at a time
QuotientDigit[r \in Big, b \in Big] == DigitStep[r, b, DigitStep[r, b, DigitStep[r, b, 0, 1024], 32], 1]

\* quotient and remainder so far
DivState == [q : Big, r : Big]

\* one step of long division: the next lower limb of the dividend joins the
\* remainder
DivStep[prev \in DivState, limb \in Nat, b \in Big] ==
    LET r2 == BigTrim[<<limb>> \o prev.r]
        d == QuotientDigit[r2, b]
    IN  [q |-> BigTrim[<<d>> \o prev.q], r |-> BigSub[r2, BigMulLimb[b, d]]]

\* long division of the limbs k .. Len(a) of a by b, the highest limb first
BigDivFrom[a \in Big, b \in Big, k \in Nat] ==
    IF k > Len(a) THEN [q |-> <<>>, r |-> <<>>]
    ELSE DivStep[BigDivFrom[a, b, k + 1], a[k], b]

\* quotient q and remainder r of a / b, b # 0
BigDivMod[a \in Big, b \in Big] == BigDivFrom[a, b, 1]

\* A double is s * m * 2^e with s the sign (1 or -1) and m odd, or zero.
\* Exponents stay far inside the range of a double, so there is neither
\* overflow nor a subnormal result.
Signs == {1, -1}
Doubles == [s : Signs, m : Big, e : Int]

FZero == [s |-> 1, m |-> <<>>, e |-> 0]

\* the number of zero bits below the lowest one bit of m # 0
TrailingZeros[m \in Big] ==
    LET k == CHOOSE j \in 1..Len(m) : m[j] # 0 /\ \A l \in 1..(j - 1) : m[l] = 0
        z == CHOOSE j \in 0..(LimbBits - 1) :
                 m[k] % LimbPow2[j] = 0 /\ m[k] % LimbPow2[j + 1] # 0
    IN  (k - 1) * LimbBits + z

FCanon[s \in Signs, m \in Big, e \in Int] ==
    IF m = <<>> THEN FZero
    ELSE LET z == TrailingZeros[m]
         IN  [s |-> s, m |-> BigShr[m, z], e |-> e + z]

\* s * (m + sticky) * 2^e rounded to MantissaBits bits, ties to even; sticky
\* stands for a nonzero amount below the last bit of m
FRound[s \in Signs, m \in Big, e \in Int, sticky \in BOOLEAN] ==
    LET len == BigBitLen[m]
    IN  IF len <= MantissaBits THEN FCanon[s, m, e]
        ELSE LET sh == len - MantissaBits
                 q == BigShr[m, sh]
                 low == BigSub[m, BigShl[q, sh]]
                 c == BigCmp[low, BigShl[<<1>>, sh - 1]]
                 up == c > 0 \/ (c = 0 /\ (sticky \/ BigOdd[q]))
             IN  FCanon[s, IF up THEN BigAdd[q, <<1>>] ELSE q, e + sh]

\* the Number of an integer literal or of an integer-valued field
FOfInt[n \in Int] == FCanon[IF n < 0 THEN -1 ELSE 1, BigOfNat[IF n < 0 THEN -n ELSE n], 0]

FNeg[x \in Doubles] == IF x.m = <<>> THEN x ELSE [x EXCEPT !.s = -x.s]

\* x + y without rounding (m need not be odd)
ExactSum[x \in Doubles, y \in Doubles] ==
    LET e == IF x.e < y.e THEN x.e ELSE y.e
        a == BigShl[x.m, x.e - e]
        b == BigShl[y.m, y.e - e]
    IN  IF x.s = y.s THEN [s |-> x.s, m |-> BigAdd[a, b], e |-> e]
        ELSE IF BigCmp[a, b] >= 0 THEN [s |-> x.s, m |-> BigSub[a, b], e |-> e]
        ELSE [s |-> y.s, m |-> BigSub[b, a], e |-> e]

\* x + y
FAdd[x \in Doubles, y \in Doubles] == LET t == ExactSum[x, y] IN FRound[t.s, t.m, t.e, FALSE]

\* x - y
FSub[x \in Doubles, y \in Doubles] == FAdd[x, FNeg[y]]

\* x * y
FMul[x \in Doubles, y \in Doubles] == FRound[x.s * y.s, BigMul[x.m, y.m], x.e + y.e, FALSE]

\* x / y for y # 0
FDiv[x \in Doubles, y \in Doubles] ==
    IF x.m = <<>> THEN FZero
    ELSE LET gap == MantissaBits + 3 + BigBitLen[y.m] - BigBitLen[x.m]
             k == IF gap < 0 THEN 0 ELSE gap
             d == BigDivMod[BigShl[x.m, k], y.m]
         IN  FRound[x.s * y.s, d.q, x.e - y.e - k, d.r # <<>>]

\* the sign of x - y
FCmp[x \in Doubles, y \in Doubles] == LET t == ExactSum[x, FNeg[y]] IN IF t.m = <<>> THEN 0 ELSE t.s

\* x < y
FLess[x \in Doubles, y \in Doubles] == FCmp[x, y] < 0

\* Math.floor(x), for a result small enough to be an Int of the model
MathFloor[x \in Doubles] ==
    IF x.e >= 0 THEN x.s * BigToNat[BigShl[x.m, x.e]]
    ELSE LET q == BigToNat[BigShr[x.m, -x.e]]
         IN  IF x.s = 1 THEN q ELSE -(q + 1)

\* ------------------------------------------------------------------ names

\* File names are sequences of one-character strings.
NameAPng == <<"a", ".", "p", "n", "g">>
NameBPng == <<"b", ".", "p", "n", "g">>
NameTxt  == <<"n", ".", "t", "x", "t">>
NameZip  == <<"z", ".", "z", "i", "p">>

\* String.prototype.lastIndexOf('.'), 0-based, -1 when absent.
RECURSIVE LastIndexOf(_, _, _)
LastIndexOf(s, ch, from) ==
    IF from = 0 THEN -1
    ELSE IF s[from] = ch THEN from - 1
    ELSE LastIndexOf(s, ch, from - 1)

\* String.prototype.substring(0, end): a negative end counts as 0.
Substring0(s, end) ==
    LET e == IF end < 0 THEN 0 ELSE IF end > Len(s) THEN Len(s) ELSE end
    IN  SubSeq(s, 1, e)

\* mutant: the name is cut at its first dot
BaseNameAtFirstDot(originalName) ==
    LET dots == {k \in 1..Len(originalName) : originalName[k] = "."}
        cut == IF dots = {} THEN <<>>
               ELSE SubSeq(originalName, 1, (CHOOSE k \in dots : \A j \in dots : k <= j) - 1)
    IN  IF cut = <<>> THEN originalName ELSE cut

\* f.originalName.substring(0, f.originalName.lastIndexOf('.')) || f.originalName
BaseName(originalName) ==
    LET cut == Substring0(originalName, LastIndexOf(originalName, ".", Len(originalName)))
    IN  IF cut = <<>> THEN originalName ELSE cut

\* Number -> decimal string, as template literals print a non-negative integer.
RECURSIVE Digits(_)
Digits(n) ==
    LET d == <<"0", "1", "2", "3", "4", "5", "6", "7", "8", "9">>
    IN  IF n < 10 THEN <<d[n + 1]>> ELSE Digits(n \div 10) \o <<d[(n % 10) + 1]>>

\* ImageFormat: the MIME type, split at '/'.
FormatJPG  == <<"image", "jpeg">>
FormatPNG  == <<"image", "png">>
FormatWEBP == <<"image", "webp">>

\* config.format.split('/')[1], as a sequence of characters
Ext(format) ==
    IF format[2] = "jpeg" THEN <<"j", "p", "e", "g">>
    ELSE IF format[2] = "png" THEN <<"p", "n", "g">>
    ELSE <<"w", "e", "b", "p">>

ConvertedSuffix == <<"_", "c", "o", "n", "v", "e", "r", "t", "e", "d", ".">>

\* `${baseName}_converted.${ext}` or `${baseName}_${width}x${height}_converted.${ext}`
OutputFileName(originalName, cfg) ==
    IF cfg.keepOriginalSize
    THEN BaseName(originalName) \o ConvertedSuffix \o Ext(cfg.format)
    ELSE BaseName(originalName) \o <<"_">> \o Digits(cfg.width) \o <<"x">>
         \o Digits(cfg.height) \o ConvertedSuffix \o Ext(cfg.format)

\* `converted_original_size` or `converted_${width}x${height}`
FolderName(cfg) ==
    IF cfg.keepOriginalSize
    THEN <<"converted_original_size">>
    ELSE <<"converted_">> \o Digits(cfg.width) \o <<"x">> \o Digits(cfg.height)

\* `converted_images_${Date.now()}.zip`; the timestamp is left symbolic.
ZipName == <<"converted_images_", "Date.now()", ".zip">>

\* ------------------------------------------------------------------ config

DefaultWidth == 800
DefaultHeight == 600

InitialConfig ==
    [keepOriginalSize |-> FALSE, aspectRatio |-> "custom",
     width |-> DefaultWidth, height |-> DefaultHeight,
     format |-> FormatJPG,
     watermarkEnabled |-> FALSE, watermarkImageUrl |-> Null, watermarkScale |-> 20,
     watermarkPosition |-> "bottom-right", watermarkMode |-> "single",
     customX |-> 50, customY |-> 50]

\* ------------------------------------------------------------------ items

Terminal(status) == status \in {"success", "error"}

\* the object pushed by processFiles
NewItem(id, name) ==
    [id |-> id, originalName |-> name, status |-> "pending",
     processedBlob |-> Null, errorMessage |-> Null]

\* the blob processImage(f, cfg) resolves with: the image of item f
\* composited and encoded as cfg says
Blob(f, cfg) == [of |-> f.id, cfg |-> cfg]

\* mutant: the item is marked finished without having been processing
MarkProcessingAsSuccess(f) == [f EXCEPT !.status = "success"]

\* { ...updatedFiles[i], status: 'processing' }
MarkProcessing(f) == [f EXCEPT !.status = "processing"]

\* { ...updatedFiles[i], status: 'success', processedBlob: blob }
Succeed(f, blob) == [f EXCEPT !.status = "success", !.processedBlob = blob]

\* mutant: the error message is forgotten
FailWithoutMessage(f) == [f EXCEPT !.status = "error"]

\* { ...updatedFiles[i], status: 'error', errorMessage: 'Conversion failed' }
Fail(f) == [f EXCEPT !.status = "error", !.errorMessage = ConversionFailed]

CountStatus(fs, st) == Cardinality({k \in 1..Len(fs) : fs[k].status = st})

\* mutant: the filter looks at the blob alone
SuccessfulFilesByBlob(fs) == SelectSeq(fs, LAMBDA f : f.processedBlob # Null)

\* updatedFiles.filter(f => f.status === 'success' && f.processedBlob)
SuccessfulFiles(fs) ==
    SelectSeq(fs, LAMBDA f : f.status = "success" /\ f.processedBlob # Null)

\* ------------------------------------------------------------------ archives

\* JSZip folder.file(name, data): an entry of the same name is replaced.
ZipFile(entries, name, data) ==
    {e \in entries : e.name # name} \cup {[name |-> name, data |-> data]}

RECURSIVE ZipEntries(_, _, _)
ZipEntries(processedFiles, cfg, k) ==
    IF k = 0 THEN {}
    ELSE LET f == processedFiles[k]
             before == ZipEntries(processedFiles, cfg, k - 1)
         IN  IF f.status = "success" /\ f.processedBlob # Null
             THEN ZipFile(before, OutputFileName(f.originalName, cfg), f.processedBlob)
             ELSE before

\* packageZip(processedFiles, config): the archive it serialises
PackageZip(processedFiles, cfg) ==
    [folder |-> FolderName(cfg),
     entries |-> ZipEntries(processedFiles, cfg, Len(processedFiles))]


\* ------------------------------------------------------------------ intake

TypePng  == <<"image", "png">>
TypeText == <<"text", "plain">>
TypeZip  == <<"application", "zip">>
TypeXZip == <<"application", "x-zip-compressed">>

EndsWith(s, suffix) ==
    /\ Len(s) >= Len(suffix)
    /\ SubSeq(s, Len(s) - Len(suffix) + 1, Len(s)) = suffix

LowerChar(ch) ==
    CASE ch = "A" -> "a" [] ch = "B" -> "b" [] ch = "E" -> "e" [] ch = "F" -> "f"
      [] ch = "G" -> "g" [] ch = "I" -> "i" [] ch = "J" -> "j" [] ch = "N" -> "n"
      [] ch = "P" -> "p" [] ch = "W" -> "w" [] OTHER -> ch

LowerCase(s) == [k \in 1..Len(s) |-> LowerChar(s[k])]

\* /\.(jpg|jpeg|png|webp|gif)$/i.test(filename)
IsImageName(filename) ==
    \E suffix \in {<<".", "j", "p", "g">>, <<".", "j", "p", "e", "g">>,
                   <<".", "p", "n", "g">>, <<".", "w", "e", "b", "p">>,
                   <<".", "g", "i", "f">>} :
        EndsWith(LowerCase(filename), suffix)

\* filename.split('/').pop() || filename
CleanName(filename) ==
    LET slash == LastIndexOf(filename, "/", Len(filename))
        last == SubSeq(filename, slash + 2, Len(filename))
    IN  IF last = <<>> THEN filename ELSE last

\* mutant: extractImagesFromZip without the filter of lines 181-183
ExtractEveryEntry(archive) ==
    [k \in 1..Len(archive.entries) |-> CleanName(archive.entries[k].filename)]

\* extractImagesFromZip: the names of the File objects it returns, in order
ExtractImagesFromZip(archive) ==
    LET kept == SelectSeq(archive.entries,
                          LAMBDA e : ~e.dir /\ IsImageName(e.filename))
    IN  [k \in 1..Len(kept) |-> CleanName(kept[k].filename)]

\* the test of line 115
IsZipFile(file) ==
    \/ file.type = TypeZip
    \/ file.type = TypeXZip
    \/ EndsWith(file.name, <<".", "z", "i", "p">>)

\* file.type.startsWith('image/')
IsImageFile(file) == file.type[1] = "image"

\* mutant: what was extracted before the archive failed is still queued
NamesOfInputKeepsPartial(file) ==
    IF IsZipFile(file)
    THEN ExtractImagesFromZip(file.archive)
    ELSE IF IsImageFile(file) THEN <<file.name>> ELSE <<>>

\* The names one input of processFiles contributes to newFiles.  An archive is
\* readable when zip.loadAsync and the async('blob') of every kept entry
\* resolve; otherwise extractImagesFromZip rejects and its local imageFiles
\* is lost.
NamesOfInput(file) ==
    IF IsZipFile(file)
    THEN IF file.archive.readable THEN ExtractImagesFromZip(file.archive) ELSE <<>>
    ELSE IF IsImageFile(file) THEN <<file.name>> ELSE <<>>

RECURSIVE NamesOfList(_)
NamesOfList(fileList) ==
    IF fileList = <<>> THEN <<>>
    ELSE NamesOfInput(Head(fileList)) \o NamesOfList(Tail(fileList))

\* alert(`Failed to parse ZIP: ...`) of line 121
AlertsOfList(fileList) ==
    Cardinality({k \in 1..Len(fileList) :
                    IsZipFile(fileList[k]) /\ ~fileList[k].archive.readable})

\* newFiles: one pending item per name, each with a fresh id
NewFiles(names, firstId) ==
    [k \in 1..Len(names) |-> NewItem(firstId + k - 1, names[k])]

\* The files a user may hand to the drop zone or the file picker.
FileAPng == [name |-> NameAPng, type |-> TypePng, archive |-> Null]
FileBPng == [name |-> NameBPng, type |-> TypePng, archive |-> Null]
FileTxt  == [name |-> NameTxt, type |-> TypeText, archive |-> Null]
ZipGood ==
    [name |-> NameZip, type |-> TypeZip,
     archive |-> [readable |-> TRUE,
                  entries |-> << [filename |-> <<"d", "/">>, dir |-> TRUE],
                                 [filename |-> <<"d", "/", "a", ".", "p", "n", "g">>, dir |-> FALSE],
                                 [filename |-> NameTxt, dir |-> FALSE] >>]]
ZipCorrupt ==
    [name |-> NameZip, type |-> TypeXZip,
     archive |-> [readable |-> FALSE, entries |-> <<>>]]

UploadChoices == {FileAPng, FileBPng, FileTxt, ZipGood, ZipCorrupt}

\* the lists handed to processFiles: one file, or two in either order
FileLists ==
    {<<f>> : f \in UploadChoices} \cup {<<f, g>> : f \in UploadChoices, g \in UploadChoices}


\* newFiles' names for each list, computed once
NamesOf == [fileList \in FileLists |-> NamesOfList(fileList)]

\* ------------------------------------------------------------------ App

\* the message the panel starts with
WelcomeMessage == [role |-> "model", text |-> <<"aiWelcome">>]

InitApp ==
    /\ files = <<>>
    /\ config = InitialConfig
    /\ isProcessing = FALSE
    /\ progress = 0
    /\ summary = Null
    /\ pc = "idle"
    /\ updatedFiles = <<>>
    /\ runConfig = Null
    /\ i = 0
    /\ successCount = 0
    /\ failCount = 0
    /\ nextId = 0
    /\ saved = <<>>
    /\ zipBuilt = 0
    /\ threw = "none"
    /\ outcome = <<>>
    /\ progressLog = <<>>
    /\ revoked = {}
    /\ input = <<>>
    /\ isLoading = FALSE
    /\ messages = <<WelcomeMessage>>
    /\ outstanding = {}

Init ==
    /\ InitApp
    /\ pin = Null
    /\ pout = Null

runVars == <<pc, updatedFiles, runConfig, i, successCount, failCount, saved,
             zipBuilt, threw, outcome, progressLog>>

\* processFiles(fileList), from the drop zone or the file picker.  The awaits
\* of the archive branch touch only the local newFiles; the queue is written
\* once, by the functional update of line 126.
ProcessFiles(fileList) ==
    LET names == NamesOf[fileList]
    IN  /\ nextId + Len(names) <= MaxIds
        /\ files' = files \o NewFiles(names, nextId + 1)
        /\ summary' = Null
        /\ nextId' = nextId + Len(names)
        /\ UNCHANGED <<config, isProcessing, progress, runVars, revoked, panelVars, pin, pout>>

\* the X button of a queue item, rendered only while the item is pending
RemoveFile(id) ==
    /\ \E k \in 1..Len(files) : files[k].id = id /\ files[k].status = "pending"
    /\ files' = SelectSeq(files, LAMBDA f : f.id # id)
    /\ UNCHANGED <<config, isProcessing, progress, summary, nextId,
                   runVars, revoked, panelVars, pin, pout>>

\* the ids of the items of a queue
IdsOf(fs) == {fs[k].id : k \in 1..Len(fs)}

\* the items whose preview URL is live: processFiles creates one object URL
\* for every item it builds, and a URL lives until it is revoked
LivePreviews == (1..nextId) \ revoked

\* clearAll; its button is rendered whenever the queue is not empty.  It
\* revokes the preview URL of every item of the queue it sees.
ClearAll ==
    /\ Len(files) > 0
    /\ revoked' = revoked \cup IdsOf(files)
    /\ files' = <<>>
    /\ summary' = Null
    /\ progress' = 0
    /\ UNCHANGED <<config, isProcessing, nextId, runVars, panelVars, pin, pout>>

\* the keep-original-size checkbox
ToggleKeepOriginalSize ==
    /\ config' = [config EXCEPT !.keepOriginalSize = ~@]
    /\ UNCHANGED <<files, isProcessing, progress, summary, nextId,
                   runVars, revoked, panelVars, pin, pout>>

\* mutant: the run reads the configuration as it is now
LiveConfig == config

\* `config` inside startProcessing: the constant of the render whose
\* startProcessing was called, which later setConfig calls do not change
ConfigOfRun == runConfig

\* mutant: the start button is not disabled during a run
CanStartWhileProcessing == Len(files) # 0

\* the start button is disabled when the queue is empty or a run is in progress
CanStart == Len(files) # 0 /\ ~isProcessing

\* startProcessing up to its first await (processImage of the first item)
StartProcessing ==
    /\ CanStart
    /\ isProcessing' = TRUE
    /\ progress' = 0
    /\ summary' = Null
    /\ updatedFiles' = [files EXCEPT ![1] = MarkProcessing(@)]
    /\ files' = updatedFiles'
    /\ runConfig' = config
    /\ i' = 1
    /\ successCount' = 0
    /\ failCount' = 0
    /\ pc' = "processImage"
    /\ saved' = <<>>
    /\ zipBuilt' = 0
    /\ threw' = "none"
    /\ outcome' = <<>>
    /\ progressLog' = <<0>>
    /\ UNCHANGED <<config, nextId, revoked, panelVars, pin, pout>>

\* the ProcessSummary passed to setSummary
RunSummary(fs, sc, fc, name) ==
    [total |-> Len(fs), success |-> sc, failed |-> fc, outputZipName |-> name]

\* lines 157-174, up to the await of packageZip or to the end of the function
AfterLoop(done, sc, fc) ==
    IF sc > 0
    THEN IF Len(SuccessfulFiles(done)) = 1
         THEN LET f == SuccessfulFiles(done)[1]
                  fileName == OutputFileName(f.originalName, ConfigOfRun)
              IN  \E saveOk \in BOOLEAN :
                    /\ saved' = IF saveOk
                                THEN Append(saved, [kind |-> "file", name |-> fileName,
                                                    data |-> f.processedBlob])
                                ELSE saved
                    /\ threw' = IF saveOk THEN threw ELSE "saveAs"
                    /\ summary' = IF saveOk THEN RunSummary(done, sc, fc, fileName)
                                  ELSE summary
                    /\ isProcessing' = FALSE
                    /\ pc' = "idle"
                    /\ zipBuilt' = zipBuilt
         ELSE /\ zipBuilt' = zipBuilt + 1
              /\ pc' = "packageZip"
              /\ UNCHANGED <<saved, threw, summary, isProcessing>>
    ELSE /\ summary' = RunSummary(done, 0, fc, <<>>)
         /\ isProcessing' = FALSE
         /\ pc' = "idle"
         /\ UNCHANGED <<saved, threw, zipBuilt>>

\* The awaited processImage of item i settles (ok: it resolved with a blob);
\* the loop body finishes and runs on to the next await.
ProcessImageSettles(ok) ==
    /\ pc = "processImage"
    /\ LET n == Len(updatedFiles)
           done == [updatedFiles EXCEPT
                      ![i] = IF ok THEN Succeed(@, Blob(@, ConfigOfRun)) ELSE Fail(@)]
           sc == IF ok THEN successCount + 1 ELSE successCount
           fc == IF ok THEN failCount ELSE failCount + 1
       IN  /\ successCount' = sc
           /\ failCount' = fc
           /\ progress' = MathRoundPercent(i, n)
           /\ progressLog' = Append(progressLog, progress')
           /\ outcome' = Append(outcome, ok)
           /\ IF i < n
              THEN /\ updatedFiles' = [done EXCEPT ![i + 1] = MarkProcessing(@)]
                   /\ i' = i + 1
                   /\ UNCHANGED <<pc, saved, threw, zipBuilt, summary, isProcessing>>
              ELSE /\ updatedFiles' = done
                   /\ i' = i
                   /\ AfterLoop(done, sc, fc)
           /\ files' = updatedFiles'
    /\ UNCHANGED <<config, runConfig, nextId, revoked, panelVars, pin, pout>>

ProcessImageResolves == ProcessImageSettles(TRUE)

\* mutant: the first failure ends the run
ProcessImageRejectsAndStops ==
    /\ pc = "processImage"
    /\ updatedFiles' = [updatedFiles EXCEPT ![i] = Fail(@)]
    /\ files' = updatedFiles'
    /\ failCount' = failCount + 1
    /\ outcome' = Append(outcome, FALSE)
    /\ isProcessing' = FALSE
    /\ pc' = "idle"
    /\ UNCHANGED <<config, progress, summary, runConfig, i, successCount, nextId,
                   saved, zipBuilt, threw, progressLog, revoked, panelVars, pin, pout>>

ProcessImageRejects == ProcessImageSettles(FALSE)

\* packageZip resolved: saveAs(zipBlob, zipName), setSummary, setIsProcessing(false)
PackageZipResolves ==
    /\ pc = "packageZip"
    /\ \E saveOk \in BOOLEAN :
         /\ saved' = IF saveOk
                     THEN Append(saved, [kind |-> "zip", name |-> ZipName,
                                         data |-> PackageZip(updatedFiles, ConfigOfRun)])
                     ELSE saved
         /\ threw' = IF saveOk THEN threw ELSE "saveAs"
         /\ summary' = IF saveOk
                       THEN RunSummary(updatedFiles, successCount, failCount, ZipName)
                       ELSE summary
    /\ isProcessing' = FALSE
    /\ pc' = "idle"
    /\ UNCHANGED <<files, config, progress, updatedFiles, runConfig, i,
                   successCount, failCount, nextId, zipBuilt, outcome,
                   progressLog, revoked, panelVars, pin, pout>>

\* packageZip rejected: the catch of line 172 logs it; setIsProcessing(false)
PackageZipRejects ==
    /\ pc = "packageZip"
    /\ threw' = "packageZip"
    /\ isProcessing' = FALSE
    /\ pc' = "idle"
    /\ UNCHANGED <<files, config, progress, summary, updatedFiles, runConfig, i,
                   successCount, failCount, nextId, saved, zipBuilt,
                   outcome, progressLog, revoked, panelVars, pin, pout>>

RunStep ==
    \/ ProcessImageResolves
    \/ ProcessImageRejects
    \/ PackageZipResolves
    \/ PackageZipRejects

Next ==
    \/ \E fileList \in FileLists : ProcessFiles(fileList)
    \/ \E id \in 1..MaxIds : RemoveFile(id)
    \/ ClearAll
    \/ ToggleKeepOriginalSize
    \/ StartProcessing
    \/ ProcessImageResolves
    \/ ProcessImageRejects
    \/ PackageZipResolves
    \/ PackageZipRejects

Spec == Init /\ [][Next]_vars

\* Every awaited promise of a run settles: the image element fires onload or
\* onerror, toBlob calls back, generateAsync resolves or rejects.
FairSpec == Spec /\ WF_vars(RunStep)


\* ------------------------------------------------------------------ progress loop

\* The loop counter of startProcessing alone: a queue of pin.total items of
\* which pin.completed have been processed; pout is the progress reported
\* last and the one reported before it.  setProgress(0) precedes the loop.
ProgInit ==
    /\ InitApp
    /\ pin \in {[total |-> n, completed |-> 0] : n \in 1..MaxTotal}
    /\ pout = [progress |-> 0, previous |-> 0]

\* one iteration: setProgress(Math.round(((i + 1) / updatedFiles.length) * 100))
LoopIteration ==
    /\ pin.completed < pin.total
    /\ pin' = [pin EXCEPT !.completed = @ + 1]
    /\ pout' = [progress |-> MathRoundPercent(pin.completed + 1, pin.total),
                previous |-> pout.progress]
    /\ UNCHANGED appVars

ProgSpec == ProgInit /\ [][LoopIteration]_vars

\* ------------------------------------------------------------------ base image

RECURSIVE Gcd(_, _)
Gcd(a, b) == IF b = 0 THEN a ELSE Gcd(b, a % b)

Abs(x) == IF x < 0 THEN -x ELSE x

\* The exact value num / den (den > 0) of a JavaScript number, in lowest terms.
\* The dimensions tried are far below 2^26, so the double comparison
\* srcRatio > dstRatio decides as the exact one does.
Rat(num, den) ==
    LET g == Gcd(Abs(num), den)
    IN  [num |-> num \div g, den |-> den \div g]

RatInt(n) == [num |-> n, den |-> 1]

RatLess(a, b) == a.num * b.den < b.num * a.den

RatLeq(a, b) == a.num * b.den <= b.num * a.den

\* lines 203-235 of processImage: the canvas and the rectangle drawImage fills
BaseDraw(imgWidth, imgHeight, cfg) ==
    IF cfg.keepOriginalSize
    THEN [canvasWidth |-> imgWidth, canvasHeight |-> imgHeight,
          drawWidth |-> RatInt(imgWidth), drawHeight |-> RatInt(imgHeight),
          offsetX |-> RatInt(0), offsetY |-> RatInt(0)]
    ELSE LET srcRatio == Rat(imgWidth, imgHeight)
             dstRatio == Rat(cfg.width, cfg.height)
         IN  IF RatLess(dstRatio, srcRatio)
             THEN LET drawHeight == Rat(imgHeight * cfg.width, imgWidth)
                  IN  [canvasWidth |-> cfg.width, canvasHeight |-> cfg.height,
                       drawWidth |-> RatInt(cfg.width),
                       drawHeight |-> drawHeight,
                       offsetX |-> RatInt(0),
                       offsetY |-> Rat(cfg.height * drawHeight.den - drawHeight.num,
                                       2 * drawHeight.den)]
             ELSE LET drawWidth == Rat(imgWidth * cfg.height, imgHeight)
                  IN  [canvasWidth |-> cfg.width, canvasHeight |-> cfg.height,
                       drawWidth |-> drawWidth,
                       drawHeight |-> RatInt(cfg.height),
                       offsetX |-> Rat(cfg.width * drawWidth.den - drawWidth.num,
                                       2 * drawWidth.den),
                       offsetY |-> RatInt(0)]

\* pixel dimensions tried: the small ones and those of the spec's scenario
Dims == (1..MaxDim) \cup {600, 800, 900, 1600}

GeomInit ==
    /\ InitApp
    /\ pin \in {[imgWidth |-> iw, imgHeight |-> ih,
                 cfg |-> [InitialConfig EXCEPT !.width = w, !.height = h,
                                               !.keepOriginalSize = keep]] :
                  iw \in Dims, ih \in Dims, w \in Dims, h \in Dims, keep \in BOOLEAN}
    /\ pout = Null

\* processImage draws the decoded image
DrawBaseImage ==
    /\ pout = Null
    /\ pout' = BaseDraw(pin.imgWidth, pin.imgHeight, pin.cfg)
    /\ UNCHANGED <<appVars, pin>>

GeomSpec == GeomInit /\ [][DrawBaseImage]_vars


\* ------------------------------------------------------------------ watermark

\* the literals 1.5 and 0.03 and 2 as doubles
OneAndAHalf == [s |-> 1, m |-> <<3>>, e |-> -1]
ThreePercent == FDiv[FOfInt[3], FOfInt[100]]
Two == FOfInt[2]

\* lines 248-253: the rendered watermark size, the corner padding
WatermarkMetrics(canvasWidth, canvasHeight, wmImg, cfg) ==
    LET wmAspectRatio == FDiv[FOfInt[wmImg.width], FOfInt[wmImg.height]]
        targetWmWidth == FMul[FOfInt[canvasWidth],
                              FDiv[FOfInt[cfg.watermarkScale], FOfInt[100]]]
        targetWmHeight == FDiv[targetWmWidth, wmAspectRatio]
        larger == IF canvasWidth > canvasHeight THEN canvasWidth ELSE canvasHeight
    IN  [targetWmWidth |-> targetWmWidth,
         targetWmHeight |-> targetWmHeight,
         padding |-> FMul[FOfInt[larger], ThreePercent],
         halfW |-> FDiv[targetWmWidth, Two],
         halfH |-> FDiv[targetWmHeight, Two]]

\* const stepX = targetWmWidth * 1.5; const stepY = targetWmHeight * 1.5
StepX(wm) == FMul[wm.targetWmWidth, OneAndAHalf]
StepY(wm) == FMul[wm.targetWmHeight, OneAndAHalf]

\* the values of the loop variable of for (v = from; v < limit; v += step)
LoopFrom[v \in Doubles, limit \in Doubles, step \in Doubles, done \in Seq(Doubles)] ==
    IF FLess[v, limit] THEN LoopFrom[FAdd[v, step], limit, step, Append(done, v)] ELSE done

LoopValues(from, limit, step) == LoopFrom[from, limit, step, <<>>]

\* (Math.floor((y + stepY) / stepY) % 2 === 0) ? stepX / 2 : 0
RowOffset(y, stepX, stepY) ==
    IF MathFloor[FDiv[FAdd[y, stepY], stepY]] % 2 = 0 THEN FDiv[stepX, Two] ELSE FZero

\* lines 266-276: the centres drawn by the tiled branch, in drawing order
\* (x is the outer loop, y the inner one; the inner loop takes the same
\* values of y for every x)
TiledPlacements(canvasWidth, canvasHeight, wm) ==
    LET stepX == StepX(wm)
        stepY == StepY(wm)
        xs == LoopValues(FNeg[stepX], FAdd[FOfInt[canvasWidth], stepX], stepX)
        ys == LoopValues(FNeg[stepY], FAdd[FOfInt[canvasHeight], stepY], stepY)
        rowOffset == [r \in 1..Len(ys) |-> RowOffset(ys[r], stepX, stepY)]
    IN  [k \in 1..(Len(xs) * Len(ys)) |->
           LET c == ((k - 1) \div Len(ys)) + 1
               r == ((k - 1) % Len(ys)) + 1
           IN  [x |-> FAdd[xs[c], rowOffset[r]], y |-> ys[r]]]

\* mutant: a custom position is inset by the padding like a corner
SinglePlacementInset(canvasWidth, canvasHeight, wm, cfg) ==
    [x |-> FAdd[wm.padding, FMul[FDiv[FOfInt[cfg.customX], FOfInt[100]], FOfInt[canvasWidth]]],
     y |-> FAdd[wm.padding, FMul[FDiv[FOfInt[cfg.customY], FOfInt[100]], FOfInt[canvasHeight]]]]

\* lines 280-294: the centre of the single placement
SinglePlacement(canvasWidth, canvasHeight, wm, cfg) ==
    LET w == FOfInt[canvasWidth]
        h == FOfInt[canvasHeight]
        left == FAdd[wm.padding, wm.halfW]
        top == FAdd[wm.padding, wm.halfH]
        right == FSub[FSub[w, wm.padding], wm.halfW]
        bottom == FSub[FSub[h, wm.padding], wm.halfH]
    IN  IF cfg.watermarkPosition = "custom"
        THEN [x |-> FMul[FDiv[FOfInt[cfg.customX], FOfInt[100]], w],
              y |-> FMul[FDiv[FOfInt[cfg.customY], FOfInt[100]], h]]
        ELSE CASE cfg.watermarkPosition = "top-left" -> [x |-> left, y |-> top]
               [] cfg.watermarkPosition = "top-right" -> [x |-> right, y |-> top]
               [] cfg.watermarkPosition = "bottom-left" -> [x |-> left, y |-> bottom]
               [] cfg.watermarkPosition = "bottom-right" -> [x |-> right, y |-> bottom]
               [] OTHER -> [x |-> FDiv[w, Two], y |-> FDiv[h, Two]]

\* mutant: the second placement is not inset by the padding
DualPlacementsLopsided(canvasWidth, canvasHeight, wm) ==
    << [x |-> FAdd[wm.padding, wm.halfW], y |-> FAdd[wm.padding, wm.halfH]],
       [x |-> FSub[FOfInt[canvasWidth], wm.halfW],
        y |-> FSub[FOfInt[canvasHeight], wm.halfH]] >>

\* lines 296-297: the two positions of the dual branch
DualPlacements(canvasWidth, canvasHeight, wm) ==
    << [x |-> FAdd[wm.padding, wm.halfW], y |-> FAdd[wm.padding, wm.halfH]],
       [x |-> FSub[FSub[FOfInt[canvasWidth], wm.padding], wm.halfW],
        y |-> FSub[FSub[FOfInt[canvasHeight], wm.padding], wm.halfH]] >>

\* mutant: the centre placement is pushed last
TriplePlacementsCentreLast(canvasWidth, canvasHeight, wm) ==
    << [x |-> FAdd[wm.padding, wm.halfW], y |-> FAdd[wm.padding, wm.halfH]],
       [x |-> FSub[FSub[FOfInt[canvasWidth], wm.padding], wm.halfW],
        y |-> FSub[FSub[FOfInt[canvasHeight], wm.padding], wm.halfH]],
       [x |-> FDiv[FOfInt[canvasWidth], Two], y |-> FDiv[FOfInt[canvasHeight], Two]] >>

\* lines 299-301: the three positions of the triple branch
TriplePlacements(canvasWidth, canvasHeight, wm) ==
    << [x |-> FAdd[wm.padding, wm.halfW], y |-> FAdd[wm.padding, wm.halfH]],
       [x |-> FDiv[FOfInt[canvasWidth], Two], y |-> FDiv[FOfInt[canvasHeight], Two]],
       [x |-> FSub[FSub[FOfInt[canvasWidth], wm.padding], wm.halfW],
        y |-> FSub[FSub[FOfInt[canvasHeight], wm.padding], wm.halfH]] >>

\* lines 263-304: the centres passed to drawWM, in drawing order
WatermarkPlacements(canvasWidth, canvasHeight, wmImg, cfg) ==
    LET wm == WatermarkMetrics(canvasWidth, canvasHeight, wmImg, cfg)
    IN  CASE cfg.watermarkMode = "tiled" -> TiledPlacements(canvasWidth, canvasHeight, wm)
          [] cfg.watermarkMode = "single" ->
                <<SinglePlacement(canvasWidth, canvasHeight, wm, cfg)>>
          [] cfg.watermarkMode = "dual" -> DualPlacements(canvasWidth, canvasHeight, wm)
          [] cfg.watermarkMode = "triple" -> TriplePlacements(canvasWidth, canvasHeight, wm)
          [] OTHER -> <<>>

\* What the browser does with one call of processImage: the base image
\* decodes or not, getContext('2d') gives a context or null, the watermark
\* step completes ("drawn"), loadWatermarkImage rejects ("loadFails") or a
\* canvas call of the step throws ("drawThrows"), toBlob yields a blob or null.
Environments ==
    [imageLoads : BOOLEAN, context : BOOLEAN,
     watermark : {"drawn", "loadFails", "drawThrows"}, toBlob : BOOLEAN]

\* mutant: the watermark step has no try/catch, its failure rejects the call
ProcessImageNoCatch(img, wmImg, cfg, env) ==
    IF ~env.imageLoads \/ ~env.context
    THEN [settled |-> "rejected", watermarkTried |-> FALSE, warned |-> FALSE,
          drawn |-> <<>>, canvas |-> Null]
    ELSE LET base == BaseDraw(img.width, img.height, cfg)
             tried == cfg.watermarkEnabled /\ cfg.watermarkImageUrl # Null
             failed == tried /\ env.watermark # "drawn"
         IN  [settled |-> IF env.toBlob /\ ~failed THEN "resolved" ELSE "rejected",
              watermarkTried |-> tried,
              warned |-> FALSE,
              drawn |-> IF tried /\ ~failed
                        THEN WatermarkPlacements(base.canvasWidth, base.canvasHeight,
                                                 wmImg, cfg)
                        ELSE <<>>,
              canvas |-> [width |-> base.canvasWidth, height |-> base.canvasHeight]]

\* processImage(file, config): how the promise settles, whether the watermark
\* step was entered, whether its catch logged a warning, the watermark
\* centres drawn (a step that throws is taken to throw at its first canvas
\* call), and the canvas that was encoded
ProcessImage(img, wmImg, cfg, env) ==
    IF ~env.imageLoads \/ ~env.context
    THEN [settled |-> "rejected", watermarkTried |-> FALSE, warned |-> FALSE,
          drawn |-> <<>>, canvas |-> Null]
    ELSE LET base == BaseDraw(img.width, img.height, cfg)
             tried == cfg.watermarkEnabled /\ cfg.watermarkImageUrl # Null
             failed == tried /\ env.watermark # "drawn"
         IN  [settled |-> IF env.toBlob THEN "resolved" ELSE "rejected",
              watermarkTried |-> tried,
              warned |-> failed,
              drawn |-> IF tried /\ ~failed
                        THEN WatermarkPlacements(base.canvasWidth, base.canvasHeight,
                                                 wmImg, cfg)
                        ELSE <<>>,
              canvas |-> [width |-> base.canvasWidth, height |-> base.canvasHeight]]

\* the data URL stored by handleWatermarkUpload
WatermarkUrl == <<"data:image/png;base64">>

\* Largest watermark scale tried, in steps of 20 percent (the slider moves in
\* steps of 5 from 5 to 100).
MaxScale == 3

\* Largest watermark image height tried.
MaxWmHeight == 3

\* target canvases, among them the 1000x500 of the spec's scenario
Canvases == {<<800, 600>>, <<1000, 500>>, <<300, 300>>}

\* watermark images: width x height in pixels
WatermarkImages == {[width |-> w, height |-> h] : w \in {1, 2, 7}, h \in 1..MaxWmHeight}

\* customX, customY as set by dragging the preview
CustomPoints == {<<20, 80>>, <<0, 0>>, <<100, 100>>, <<50, 50>>, <<33, 67>>}

\* mode and position of the watermark
WatermarkLayouts ==
    {[mode |-> m, position |-> "bottom-right", custom |-> <<50, 50>>] :
        m \in {"tiled", "dual", "triple"}}
    \cup {[mode |-> "single", position |-> p, custom |-> <<50, 50>>] :
            p \in {"center", "top-left", "top-right", "bottom-left", "bottom-right"}}
    \cup {[mode |-> "single", position |-> "custom", custom |-> c] : c \in CustomPoints}

AllGoes == [imageLoads |-> TRUE, context |-> TRUE, watermark |-> "drawn", toBlob |-> TRUE]

SourceImage == [width |-> 1600, height |-> 900]

\* The calls of processImage tried: every outcome of the browser with the
\* watermark switched on or off and its image present or absent, and, with
\* everything going well, every canvas, watermark image, scale and layout.
ImageCalls ==
    {[img |-> SourceImage, wmImg |-> [width |-> 2, height |-> 1], env |-> env,
      cfg |-> [InitialConfig EXCEPT !.watermarkEnabled = on, !.watermarkImageUrl = url,
                                    !.keepOriginalSize = keep]] :
        env \in Environments, on \in BOOLEAN, url \in {Null, WatermarkUrl},
        keep \in BOOLEAN}
    \cup
    {[img |-> SourceImage, wmImg |-> wmImg, env |-> AllGoes,
      cfg |-> [InitialConfig EXCEPT !.width = canvas[1], !.height = canvas[2],
                                    !.watermarkEnabled = TRUE,
                                    !.watermarkImageUrl = WatermarkUrl,
                                    !.watermarkScale = 20 * k,
                                    !.watermarkMode = layout.mode,
                                    !.watermarkPosition = layout.position,
                                    !.customX = layout.custom[1],
                                    !.customY = layout.custom[2]]] :
        canvas \in Canvases, wmImg \in WatermarkImages, k \in 1..MaxScale,
        layout \in WatermarkLayouts}

ImageInit ==
    /\ InitApp
    /\ pin \in ImageCalls
    /\ pout = Null

\* one call of processImage
ProcessOneImage ==
    /\ pout = Null
    /\ pout' = ProcessImage(pin.img, pin.wmImg, pin.cfg, pin.env)
    /\ UNCHANGED <<appVars, pin>>

ImageSpec == ImageInit /\ [][ProcessOneImage]_vars


\* ------------------------------------------------------------------ intake calls

\* the longest list handed to one call of processFiles
MaxInputs == 3

\* an archive recognised by its name only (no MIME type), with entries in
\* upper and mixed case, a directory whose name looks like an image, and
\* entries of other kinds
ZipMixed ==
    [name |-> NameZip, type |-> <<"", "">>,
     archive |-> [readable |-> TRUE,
                  entries |-> << [filename |-> <<"A", ".", "P", "N", "G">>, dir |-> FALSE],
                                 [filename |-> <<"e", ".", "p", "n", "g", "/">>, dir |-> TRUE],
                                 [filename |-> <<"e", ".", "p", "n", "g", "/", "b", ".", "G", "i", "f">>,
                                  dir |-> FALSE],
                                 [filename |-> <<"c", ".", "p", "n", "g", ".", "m", "d">>, dir |-> FALSE],
                                 [filename |-> <<"j", "p", "g">>, dir |-> FALSE] >>]]

\* an archive whose directory lists two images but whose data cannot be read
ZipHalfRead ==
    [name |-> NameZip, type |-> TypeZip,
     archive |-> [readable |-> FALSE,
                  entries |-> << [filename |-> NameAPng, dir |-> FALSE],
                                 [filename |-> NameBPng, dir |-> FALSE] >>]]

\* an archive without entries
ZipEmpty ==
    [name |-> NameZip, type |-> TypeXZip, archive |-> [readable |-> TRUE, entries |-> <<>>]]

IntakeChoices ==
    {FileAPng, FileBPng, FileTxt, ZipGood, ZipCorrupt, ZipMixed, ZipHalfRead, ZipEmpty}

\* the lists handed to processFiles
IntakeLists ==
    UNION {[1..n -> IntakeChoices] : n \in 1..MaxInputs}

IntakeInit ==
    /\ InitApp
    /\ pin \in IntakeLists
    /\ pout = Null

\* one call of processFiles(pin); pout counts the alerts it raised
ProcessFilesCall ==
    /\ pout = Null
    /\ files' = files \o NewFiles(NamesOfList(pin), nextId + 1)
    /\ summary' = Null
    /\ nextId' = nextId + Len(NamesOfList(pin))
    /\ pout' = [alerts |-> AlertsOfList(pin)]
    /\ UNCHANGED <<config, isProcessing, progress, runVars, revoked, panelVars, pin>>

IntakeSpec == IntakeInit /\ [][ProcessFilesCall]_vars

\* ------------------------------------------------------------------ naming calls

NamePhotoPng == <<"p", "h", "o", "t", "o", ".", "p", "n", "g">>

\* original names: the spec's photo.png, two extensions, no extension, a dot
\* at the end, and names that begin with their only dot
OriginalNames ==
    {NamePhotoPng, NameAPng, <<"a", ".", "b", ".", "j", "p", "g">>, <<"r", "a", "w">>,
     <<"a", ".">>, <<".", "p", "n", "g">>, <<".">>}

\* target sizes, of one to four digits
NameSizes == {1, 10, 300, 1080}

NameCalls ==
    {[originalName |-> n,
      cfg |-> [InitialConfig EXCEPT !.width = w, !.height = h, !.keepOriginalSize = keep,
                                    !.format = fmt]] :
        n \in OriginalNames, w \in NameSizes, h \in NameSizes, keep \in BOOLEAN,
        fmt \in {FormatJPG, FormatPNG, FormatWEBP}}

NameInit ==
    /\ InitApp
    /\ pin \in NameCalls
    /\ pout = Null

\* The names given to the output of pin.originalName: by startProcessing when
\* it is the only success (download), and by packageZip when it is one of two
\* successes (entries), the other being b.png.
NameOutputs ==
    /\ pout = Null
    /\ LET one == Succeed(NewItem(1, pin.originalName), Blob(NewItem(1, pin.originalName), pin.cfg))
           two == Succeed(NewItem(2, NameBPng), Blob(NewItem(2, NameBPng), pin.cfg))
       IN  pout' = [download |-> OutputFileName(one.originalName, pin.cfg),
                    entries |-> {e.name : e \in PackageZip(<<one, two>>, pin.cfg).entries}]
    /\ UNCHANGED <<appVars, pin>>

NameSpec == NameInit /\ [][NameOutputs]_vars


\* ------------------------------------------------------------------ size edits

\* the largest number typed into the width and height inputs
MaxEdit == 6

\* parseInt(e.target.value) || 0: what the number inputs hand to the handlers
EditValues == -2..MaxEdit

FHalf == FDiv[FOfInt[1], FOfInt[2]]

\* Math.round(x): the nearest integer, halves towards +Infinity
MathRound[x \in Doubles] ==
    LET f == MathFloor[x]
    IN  IF FLess[FSub[x, FOfInt[f]], FHalf] THEN f ELSE f + 1

\* aspectRatios: value -> ratio, each ratio the double its literal denotes
AspectRatios ==
    [custom |-> FZero,
     sq |-> FOfInt[1],
     std |-> FDiv[FOfInt[4], FOfInt[3]],
     portrait |-> FDiv[FOfInt[3], FOfInt[4]],
     wide |-> FDiv[FOfInt[16], FOfInt[9]],
     story |-> FDiv[FOfInt[9], FOfInt[16]],
     social |-> FDiv[FOfInt[4], FOfInt[5]],
     classic |-> FDiv[FOfInt[2], FOfInt[3]],
     landscape |-> FDiv[FOfInt[3], FOfInt[2]]]

\* the value attribute of each aspect ratio option
RatioValue ==
    [custom |-> "custom", sq |-> "1:1", std |-> "4:3", portrait |-> "3:4",
     wide |-> "16:9", story |-> "9:16", social |-> "4:5", classic |-> "2:3",
     landscape |-> "3:2"]

RatioKeys == DOMAIN AspectRatios

\* aspectRatios.find(r => r.value === value).ratio
RatioOf(value) == AspectRatios[CHOOSE k \in RatioKeys : RatioValue[k] = value]

\* the typed value taken as it is
Unclamped(val) == val

\* Math.max(1, val)
SafeVal(val) == IF val > 1 THEN val ELSE 1

\* everything but config
NotConfig ==
    <<files, isProcessing, progress, summary, nextId, runVars, revoked, panelVars, pin, pout>>

\* handleRatioChange: a preset derives the height from the current width
HandleRatioChange(newRatioValue) ==
    /\ config' = IF newRatioValue # "custom"
                 THEN [config EXCEPT
                          !.aspectRatio = newRatioValue,
                          !.height = MathRound[FDiv[FOfInt[config.width], RatioOf(newRatioValue)]]]
                 ELSE [config EXCEPT !.aspectRatio = "custom"]
    /\ UNCHANGED NotConfig

\* handleWidthChange
HandleWidthChange(val) ==
    /\ config' = IF config.aspectRatio # "custom"
                 THEN [config EXCEPT
                          !.width = SafeVal(val),
                          !.height = MathRound[FDiv[FOfInt[SafeVal(val)], RatioOf(config.aspectRatio)]]]
                 ELSE [config EXCEPT !.width = SafeVal(val)]
    /\ UNCHANGED NotConfig

\* handleHeightChange
HandleHeightChange(val) ==
    /\ config' = IF config.aspectRatio # "custom"
                 THEN [config EXCEPT
                          !.height = SafeVal(val),
                          !.width = MathRound[FMul[FOfInt[SafeVal(val)], RatioOf(config.aspectRatio)]]]
                 ELSE [config EXCEPT !.height = SafeVal(val)]
    /\ UNCHANGED NotConfig

ConfigNext ==
    \/ \E k \in RatioKeys : HandleRatioChange(RatioValue[k])
    \/ \E val \in EditValues : HandleWidthChange(val)
    \/ \E val \in EditValues : HandleHeightChange(val)

ConfigSpec == Init /\ [][ConfigNext]_vars


\* ------------------------------------------------------------------ assistant panel

\* questions asked in one session of the panel
MaxQuestions == 3

\* what the user types into the input; texts are sequences of characters
TypedTexts == {<<" ">>, <<"a">>, <<" ", "b">>, <<"c", " ">>}

IsSpace(c) == c = " "

\* String.prototype.trim
RECURSIVE TrimStart(_)
TrimStart(t) == IF t # <<>> /\ IsSpace(Head(t)) THEN TrimStart(Tail(t)) ELSE t

RECURSIVE TrimEnd(_)
TrimEnd(t) ==
    IF t # <<>> /\ IsSpace(t[Len(t)]) THEN TrimEnd(SubSeq(t, 1, Len(t) - 1)) ELSE t

Trim(t) == TrimEnd(TrimStart(t))

\* the user messages of a list
Questions(ms) == SelectSeq(ms, LAMBDA m : m.role = "user")

\* what generateAIAdvice can resolve to for a query: the model's text (which
\* depends on the question), the fallback for an empty text, or the apology of
\* the catch block; it never rejects
AdviceTexts(query) ==
    {<<"advice for">> \o query, <<"no response">>, <<"unable to connect">>}

\* onChange of the input
SetInput(text) ==
    /\ input' = text
    /\ UNCHANGED <<isLoading, messages, outstanding, queueVars, pin, pout>>

\* handleSend up to its await: the question is appended, the input is
\* emptied, isLoading is set and generateAIAdvice is called
HandleSend ==
    /\ Trim(input) # <<>>
    /\ Len(Questions(messages)) < MaxQuestions
    /\ messages' = Append(messages, [role |-> "user", text |-> input])
    /\ input' = <<>>
    /\ isLoading' = TRUE
    /\ outstanding' = outstanding \cup {[at |-> Len(messages) + 1, query |-> input]}
    /\ UNCHANGED <<queueVars, pin, pout>>

\* the send button is disabled while isLoading or when the input is blank
CanClickSend == ~isLoading /\ Trim(input) # <<>>

\* onClick of the send button
ClickSend == CanClickSend /\ HandleSend

\* the keys pressed in the input
Keys == {"Enter", "a"}

\* onKeyDown of the input: e.key === 'Enter' && handleSend()
KeyDown(key) == key = "Enter" /\ HandleSend

\* handleSend after its await: a call returns, its reply is appended and
\* isLoading is reset
AdviceReturns(r, responseText) ==
    /\ r \in outstanding
    /\ messages' = Append(messages, [role |-> "model", text |-> responseText])
    /\ isLoading' = FALSE
    /\ outstanding' = outstanding \ {r}
    /\ UNCHANGED <<input, queueVars, pin, pout>>

PanelNext ==
    \/ \E text \in TypedTexts : SetInput(text)
    \/ ClickSend
    \/ \E key \in Keys : KeyDown(key)
    \/ \E r \in outstanding : \E responseText \in AdviceTexts(r.query) :
          AdviceReturns(r, responseText)

PanelSpec == Init /\ [][PanelNext]_vars

\* ------------------------------------------------------------------ claims

\* the status changes of the items present in the queue before and after a step
StatusChanges ==
    {<<files[k].status, files'[l].status>> :
        <<k, l>> \in {kl \in (1..Len(files)) \X (1..Len(files')) :
                        /\ files[kl[1]].id = files'[kl[2]].id
                        /\ files[kl[1]].status # files'[kl[2]].status}}

\* the items a step adds by intake (their ids did not exist before) are pending
IntakeIsPending ==
    \A l \in 1..Len(files') : files'[l].id > nextId => files'[l].status = "pending"

\* C1 (as stated): every status change of a queue item is pending -> processing,
\* processing -> success or processing -> error, an item enters the queue as
\* pending, and a success or error item never changes status again, also when
\* startProcessing runs a second time on the same queue.
C1_TerminalForever ==
    [][/\ StatusChanges \subseteq {<<"pending", "processing">>,
                                   <<"processing", "success">>,
                                   <<"processing", "error">>}
       /\ IntakeIsPending]_vars

\* C1 (amended): every status change of a queue item is pending -> processing,
\* processing -> success, processing -> error or, when a later run processes
\* the item again, success -> processing or error -> processing; an item
\* enters the queue as pending.
C1_StatusTransitions ==
    [][/\ StatusChanges \subseteq {<<"pending", "processing">>,
                                   <<"processing", "success">>,
                                   <<"processing", "error">>,
                                   <<"success", "processing">>,
                                   <<"error", "processing">>}
       /\ IntakeIsPending]_vars

\* C1 witness: a second run has taken an item that already carried the result
\* of an earlier run back to processing.
C1_Witness ==
    \E k \in 1..Len(files) :
        /\ files[k].status = "processing"
        /\ (files[k].processedBlob # Null \/ files[k].errorMessage # Null)

\* at most one item of fs is processing, and every item before it is finished
OneAtATime(fs) ==
    /\ CountStatus(fs, "processing") <= 1
    /\ \A k \in 1..Len(fs) :
          fs[k].status = "processing" => \A j \in 1..(k - 1) : Terminal(fs[j].status)

\* C2: at most one queue item is processing at any time, the item at index k
\* enters processing only after every item below k has reached success or
\* error, and no run begins while another is in progress (a run's loop index
\* never goes back and its items stay the same while isProcessing is true).
C2_OneAtATime ==
    /\ [](/\ OneAtATime(files)
          /\ OneAtATime(updatedFiles)
          /\ (CountStatus(files, "processing") > 0 => isProcessing)
          /\ (pc = "processImage" =>
                /\ updatedFiles[i].status = "processing"
                /\ \A j \in 1..(i - 1) : Terminal(updatedFiles[j].status)))
    /\ [][isProcessing =>
            /\ i' >= i
            /\ Len(outcome') >= Len(outcome)
            /\ [k \in 1..Len(updatedFiles') |-> updatedFiles'[k].id]
                 = [k \in 1..Len(updatedFiles) |-> updatedFiles[k].id]]_vars

\* C2 witness: the second item of a run is processing after the first finished.
C2_Witness ==
    /\ isProcessing
    /\ Len(files) >= 2
    /\ files[2].status = "processing"
    /\ Terminal(files[1].status)


\* a step that ends a run: setIsProcessing(false)
RunFinishes == isProcessing /\ ~isProcessing'

IdsInOrder(fs) == [k \in 1..Len(fs) |-> fs[k].id]

\* C3: a run that has started finishes (isProcessing returns to false); while
\* it is in progress its items stay the n items it started with, whatever the
\* user does to the queue, and when it finishes processImage has settled for
\* every one of them and each is success or error.
C3_RunCompletes ==
    /\ (isProcessing ~> ~isProcessing)
    /\ [][(isProcessing /\ isProcessing') =>
             IdsInOrder(updatedFiles') = IdsInOrder(updatedFiles)]_vars
    /\ [][RunFinishes =>
             /\ IdsInOrder(updatedFiles') = IdsInOrder(updatedFiles)
             /\ Len(updatedFiles') >= 1
             /\ i' = Len(updatedFiles')
             /\ Len(outcome') = Len(updatedFiles')
             /\ \A k \in 1..Len(updatedFiles') : Terminal(updatedFiles'[k].status)]_vars

\* C3 witness: a run over two or more items has finished although the user
\* emptied the displayed queue while it was in progress or afterwards.
C3_Witness ==
    /\ ~isProcessing
    /\ Len(updatedFiles) >= 2
    /\ Len(outcome) = Len(updatedFiles)
    /\ \A k \in 1..Len(updatedFiles) : Terminal(updatedFiles[k].status)
    /\ files = <<>>

CountOutcome(b) == Cardinality({k \in 1..Len(outcome) : outcome[k] = b})

\* C4: when processImage fails for an item of a run, the item is marked error
\* with the message 'Conversion failed', the failure counter counts exactly the
\* failed items, the loop goes on to the next item, and the status of every
\* item the run has handled is decided by that item's own outcome alone.
C4_FailureIsolated ==
    /\ Len(outcome) <= Len(updatedFiles)
    /\ \A k \in 1..Len(outcome) :
          /\ updatedFiles[k].status = IF outcome[k] THEN "success" ELSE "error"
          /\ ~outcome[k] => updatedFiles[k].errorMessage = ConversionFailed
    /\ failCount = CountOutcome(FALSE)
    /\ successCount = CountOutcome(TRUE)
    /\ (isProcessing /\ Len(outcome) < Len(updatedFiles) =>
          /\ pc = "processImage"
          /\ i = Len(outcome) + 1
          /\ updatedFiles[i].status = "processing")

\* C4 witness: an item failed and the item after it was processed and succeeded.
C4_Witness ==
    \E k \in 1..(Len(outcome) - 1) :
        /\ ~outcome[k]
        /\ outcome[k + 1]
        /\ updatedFiles[k].status = "error"
        /\ updatedFiles[k + 1].status = "success"

\* C5: every finished run over n items produces a summary with total = n,
\* success = the number of success items, failed = the number of error items
\* and success + failed = total, also when packaging or saving fails.
C5_SummaryAfterEveryRun ==
    [][RunFinishes =>
         /\ summary' # Null
         /\ summary'.total = Len(updatedFiles')
         /\ summary'.success = CountStatus(updatedFiles', "success")
         /\ summary'.failed = CountStatus(updatedFiles', "error")
         /\ summary'.success + summary'.failed = summary'.total]_vars

ZipsSaved == {k \in 1..Len(saved) : saved[k].kind = "zip"}

\* C6 (as stated): after the loop exactly 1 success saves the single blob
\* directly and builds no archive, 2 or more successes save exactly one zip
\* archive and no direct file, and 0 successes save nothing and leave the
\* summary's artifact name empty.
C6_ArtifactBySuccessCount ==
    [][RunFinishes =>
         /\ (successCount' = 1 =>
               /\ zipBuilt' = 0
               /\ Len(saved') = 1
               /\ saved'[1].kind = "file"
               /\ saved'[1].data = SuccessfulFiles(updatedFiles')[1].processedBlob)
         /\ (successCount' >= 2 =>
               /\ Len(saved') = 1
               /\ saved'[1].kind = "zip")
         /\ (successCount' = 0 =>
               /\ saved' = <<>>
               /\ zipBuilt' = 0
               /\ summary'.outputZipName = <<>>)]_vars

\* C6 (amended): after the loop the artifact attempted is chosen by the success
\* count alone: with exactly 1 success no archive is built and the single blob
\* is the only thing saved; with 2 or more successes packageZip is called once
\* and the zip archive is the only thing saved; either is saved unless
\* packaging or saveAs throws, and then nothing is saved; with 0 successes
\* nothing is saved and the summary's artifact name is empty.
C6_ArtifactAttempted ==
    [][RunFinishes =>
         /\ (successCount' = 1 =>
               /\ zipBuilt' = 0
               /\ IF threw' = "none"
                  THEN /\ Len(saved') = 1
                       /\ saved'[1].kind = "file"
                       /\ saved'[1].data = SuccessfulFiles(updatedFiles')[1].processedBlob
                  ELSE saved' = <<>>)
         /\ (successCount' >= 2 =>
               /\ zipBuilt' = 1
               /\ IF threw' = "none"
                  THEN /\ Len(saved') = 1
                       /\ saved'[1].kind = "zip"
                  ELSE saved' = <<>>)
         /\ (successCount' = 0 =>
               /\ saved' = <<>>
               /\ zipBuilt' = 0
               /\ threw' = "none"
               /\ summary'.outputZipName = <<>>)]_vars

\* C6 witness: a run with two or more successes (and a failure) has saved one zip.
C6_Witness ==
    /\ ~isProcessing
    /\ successCount >= 2
    /\ failCount >= 1
    /\ Len(saved) = 1
    /\ saved[1].kind = "zip"
    /\ zipBuilt = 1

\* C7: the archive of a run with k >= 2 successes holds exactly k file entries,
\* one per successful item and none for a failed item, whatever the original
\* filenames are.
C7_ArchiveHasEverySuccess ==
    \A a \in ZipsSaved :
        /\ Cardinality(saved[a].data.entries) = successCount
        /\ {e.data : e \in saved[a].data.entries}
             = {updatedFiles[k].processedBlob :
                  k \in {j \in 1..Len(updatedFiles) : updatedFiles[j].status = "success"}}


\* p is round(num / den): the integer nearest to num / den, a half rounding up
IsRounded(p, num, den) == 2 * den * p <= 2 * num + den /\ 2 * num + den < 2 * den * (p + 1)

\* C8: within a run over n items the progress reported after the i-th item
\* completes equals round(100 * i / n), and the values reported from the
\* start of the run (0) to its end never decrease.
C8_ProgressIsRounded ==
    /\ IsRounded(pout.progress, 100 * pin.completed, pin.total)
    /\ pout.previous <= pout.progress

\* C9: for every queue length n >= 1, while an item of the run is still
\* pending or processing the reported progress is strictly less than 100.
C9_HundredOnlyAtEnd ==
    pin.completed < pin.total => pout.progress < 100

\* C10: with keepOriginalSize false the base image is drawn with its aspect
\* ratio kept and covers the whole target canvas: when the source is wider
\* relative to the target the drawn height is the target height and the image
\* is centred horizontally (offsetX <= 0, offsetY = 0), otherwise the drawn
\* width is the target width and it is centred vertically (offsetY <= 0,
\* offsetX = 0).
C10_CoverCrop ==
    (pout # Null /\ ~pin.cfg.keepOriginalSize) =>
        LET w == RatInt(pin.cfg.width)
            h == RatInt(pin.cfg.height)
            zero == RatInt(0)
            wider == pin.imgWidth * pin.cfg.height > pin.cfg.width * pin.imgHeight
        IN  /\ pout.drawWidth.num * pout.drawHeight.den * pin.imgHeight
                 = pout.drawHeight.num * pout.drawWidth.den * pin.imgWidth
            /\ RatLeq(w, pout.drawWidth)
            /\ RatLeq(h, pout.drawHeight)
            /\ IF wider
               THEN /\ pout.drawHeight = h
                    /\ RatLeq(pout.offsetX, zero)
                    /\ pout.offsetY = zero
               ELSE /\ pout.drawWidth = w
                    /\ RatLeq(pout.offsetY, zero)
                    /\ pout.offsetX = zero

\* C11: a failure while loading or drawing the watermark never fails the item:
\* whenever the base image decodes, the canvas has a context and toBlob yields
\* a blob, processImage resolves whether or not the watermark step threw (the
\* failure is only logged and nothing of the watermark is drawn); and the
\* watermark step is entered exactly when watermarkEnabled is true and a
\* watermark source is present.
C11_WatermarkFailsSoft ==
    pout # Null =>
        /\ (pin.env.imageLoads /\ pin.env.context /\ pin.env.toBlob
              => pout.settled = "resolved")
        /\ (pout.watermarkTried =>
              pin.cfg.watermarkEnabled /\ pin.cfg.watermarkImageUrl # Null)
        /\ (pin.env.imageLoads /\ pin.env.context
              /\ pin.cfg.watermarkEnabled /\ pin.cfg.watermarkImageUrl # Null
              => pout.watermarkTried)
        /\ (pout.warned => pout.watermarkTried /\ pout.drawn = <<>>)
        /\ (pout.drawn # <<>> => pout.watermarkTried)

\* C11 witness: the watermark step threw and processImage still resolved.
C11_Witness ==
    /\ pout # Null
    /\ pout.watermarkTried
    /\ pout.warned
    /\ pin.env.watermark # "drawn"
    /\ pout.settled = "resolved"

\* the exact value of x - y, and x <= y on exact values
ExactDiff(x, y) == ExactSum[x, FNeg[y]]
Leq(x, y) == FCmp[x, y] <= 0

\* |x - y| <= |y| * 2^-40: x is y up to the rounding of a few operations
Near(x, y) ==
    LET d == ExactDiff(x, y)
    IN  Leq([s |-> 1, m |-> d.m, e |-> d.e], [s |-> 1, m |-> y.m, e |-> y.e - 40])

\* a call of processImage has drawn a watermark in the given mode
Drew(mode) == pout # Null /\ pout.drawn # <<>> /\ pin.cfg.watermarkMode = mode

\* the metrics of the watermark drawn
DrawnMetrics == WatermarkMetrics(pout.canvas.width, pout.canvas.height, pin.wmImg, pin.cfg)

\* C12: with watermarkMode = tiled every centre (x, y) drawn satisfies
\* -stepX <= x <= canvasWidth + stepX and -stepY <= y <= canvasHeight + stepY,
\* stepX and stepY being 1.5 times the rendered watermark width and height
\* (x includes the row offset).
C12_TiledWithinOneStep ==
    Drew("tiled") =>
        LET stepX == StepX(DrawnMetrics)
            stepY == StepY(DrawnMetrics)
            maxX == ExactSum[FOfInt[pout.canvas.width], stepX]
            maxY == ExactSum[FOfInt[pout.canvas.height], stepY]
        IN  \A k \in 1..Len(pout.drawn) :
               /\ Leq(FNeg[stepX], pout.drawn[k].x)
               /\ Leq(pout.drawn[k].x, maxX)
               /\ Leq(FNeg[stepY], pout.drawn[k].y)
               /\ Leq(pout.drawn[k].y, maxY)

\* the number of rows of a tiled drawing: the centres of the first column
\* come first, one per row
TiledRows ==
    LET again == {k \in 2..Len(pout.drawn) : pout.drawn[k].y = pout.drawn[1].y}
    IN  IF again = {} THEN Len(pout.drawn)
        ELSE (CHOOSE k \in again : \A j \in again : k <= j) - 1

\* C13: with watermarkMode = tiled consecutive rows are stepY apart and
\* consecutive columns stepX apart (up to the rounding of the additions), and
\* any two vertically adjacent rows differ in their horizontal offset by
\* exactly stepX / 2: the offsets alternate between stepX / 2 and 0 and no two
\* consecutive rows share an offset.
C13_RowsAlternate ==
    Drew("tiled") =>
        LET stepX == StepX(DrawnMetrics)
            stepY == StepY(DrawnMetrics)
            rows == TiledRows
            cols == Len(pout.drawn) \div rows
            at(c, r) == pout.drawn[(c - 1) * rows + r]
            offset(r) == ExactDiff(at(1, r).x, FNeg[stepX])
            half == FDiv[stepX, Two]
        IN  /\ Len(pout.drawn) = rows * cols
            /\ \A r \in 1..(rows - 1) :
                  /\ Near(ExactDiff(at(1, r + 1).y, at(1, r).y), stepY)
                  /\ FCmp[offset(r), FZero] = 0 \/ FCmp[offset(r), half] = 0
                  /\ FCmp[offset(r + 1), FZero] = 0 \/ FCmp[offset(r + 1), half] = 0
                  /\ FCmp[offset(r), offset(r + 1)] # 0
            /\ \A c \in 1..(cols - 1) : \A r \in 1..rows :
                  /\ at(c, r).y = at(1, r).y
                  /\ Near(ExactDiff(at(c + 1, r).x, at(c, r).x), stepX)

\* twice the exact value of x
Twice(x) == [s |-> x.s, m |-> x.m, e |-> x.e + 1]

DualOfThisCall ==
    WatermarkPlacements(pout.canvas.width, pout.canvas.height, pin.wmImg,
                        [pin.cfg EXCEPT !.watermarkMode = "dual"])

\* C15: with watermarkMode = triple exactly 3 placements are produced: the two
\* corner placements of dual mode for the same inputs, first and last, and
\* between them one exactly at (canvasWidth / 2, canvasHeight / 2).
C15_TripleAddsCentre ==
    Drew("triple") =>
        /\ Len(pout.drawn) = 3
        /\ <<pout.drawn[1], pout.drawn[3]>> = DualOfThisCall
        /\ FCmp[Twice(pout.drawn[2].x), FOfInt[pout.canvas.width]] = 0
        /\ FCmp[Twice(pout.drawn[2].y), FOfInt[pout.canvas.height]] = 0

\* C15 witness: three placements on the 1000x500 canvas, the middle one at
\* (500, 250).
C15_Witness ==
    /\ Drew("triple")
    /\ Len(pout.drawn) = 3
    /\ pout.canvas.width = 1000 /\ pout.canvas.height = 500
    /\ pout.drawn[2] = [x |-> FOfInt[500], y |-> FOfInt[250]]

\* (p / 100) * size in double arithmetic
PercentOf(p, size) == FMul[FDiv[FOfInt[p], FOfInt[100]], FOfInt[size]]

\* the exact value of n / 100 * size is x up to rounding: 100 x ~ n * size
NearPercent(x, n, size) ==
    IF n * size = 0 THEN x = FZero
    ELSE Near([s |-> x.s, m |-> BigMul[x.m, BigOfNat[100]], e |-> x.e], FOfInt[n * size])

\* C16: with watermarkMode = single exactly one placement is produced; with
\* position = custom its centre is (customX / 100 * canvasWidth,
\* customY / 100 * canvasHeight), whatever the watermark's size and the
\* padding; customX = 20, customY = 80 on 1000x500 gives exactly (200, 400).
C16_SingleCustomCentre ==
    Drew("single") =>
        /\ Len(pout.drawn) = 1
        /\ (pin.cfg.watermarkPosition = "custom" =>
              /\ pout.drawn[1].x = PercentOf(pin.cfg.customX, pout.canvas.width)
              /\ pout.drawn[1].y = PercentOf(pin.cfg.customY, pout.canvas.height)
              /\ NearPercent(pout.drawn[1].x, pin.cfg.customX, pout.canvas.width)
              /\ NearPercent(pout.drawn[1].y, pin.cfg.customY, pout.canvas.height)
              /\ (/\ pin.cfg.customX = 20 /\ pin.cfg.customY = 80
                  /\ pout.canvas.width = 1000 /\ pout.canvas.height = 500
                  => pout.drawn[1] = [x |-> FOfInt[200], y |-> FOfInt[400]]))

\* C16 witness: the scenario customX = 20, customY = 80 on 1000x500 with a
\* watermark that is not square.
C16_Witness ==
    /\ Drew("single")
    /\ pin.cfg.watermarkPosition = "custom"
    /\ pin.cfg.customX = 20 /\ pin.cfg.customY = 80
    /\ pout.canvas.width = 1000 /\ pout.canvas.height = 500
    /\ pin.wmImg = [width |-> 7, height |-> 3]
    /\ pout.drawn = <<[x |-> FOfInt[200], y |-> FOfInt[400]]>>

\* the entry names of the archives tried that are not directories and end in
\* .jpg, .jpeg, .png, .webp or .gif in any letter case
QualifyingEntries ==
    {<<"d", "/", "a", ".", "p", "n", "g">>, <<"A", ".", "P", "N", "G">>,
     <<"e", ".", "p", "n", "g", "/", "b", ".", "G", "i", "f">>, NameAPng, NameBPng}

\* N of the claim: the qualifying entries of an archive
QualifyingCount(archive) ==
    Cardinality({k \in 1..Len(archive.entries) :
                    ~archive.entries[k].dir /\ archive.entries[k].filename \in QualifyingEntries})

\* the items one input should add: N for a readable archive, one for an image
ExpectedItems(file) ==
    IF IsZipFile(file)
    THEN IF file.archive.readable THEN QualifyingCount(file.archive) ELSE 0
    ELSE IF IsImageFile(file) THEN 1 ELSE 0

RECURSIVE SumExpected(_)
SumExpected(fileList) ==
    IF fileList = <<>> THEN 0 ELSE ExpectedItems(Head(fileList)) + SumExpected(Tail(fileList))

\* C17: extracting a readable archive with N qualifying entries (not a
\* directory, name ending in .jpg, .jpeg, .png, .webp or .gif in any letter
\* case) and M other entries yields exactly N files, and its intake adds
\* exactly N items to the queue, each pending.
C17_ArchiveYieldsItsImages ==
    /\ \A k \in 1..Len(pin) :
          IsZipFile(pin[k]) /\ pin[k].archive.readable =>
              Len(ExtractImagesFromZip(pin[k].archive)) = QualifyingCount(pin[k].archive)
    /\ (pout # Null =>
          /\ Len(files) = SumExpected(pin)
          /\ \A k \in 1..Len(files) : files[k].status = "pending")

\* C17 witness: the intake of one archive with N = 2 qualifying entries among
\* M = 3 others has queued two pending items under the entries' own names.
C17_Witness ==
    /\ pout # Null
    /\ pin = <<ZipMixed>>
    /\ Len(files) = 2
    /\ files[1].originalName = <<"A", ".", "P", "N", "G">>
    /\ files[2].originalName = <<"b", ".", "G", "i", "f">>
    /\ files[1].status = "pending" /\ files[2].status = "pending"

\* an input that is an archive which cannot be read
IsBadArchive(file) == IsZipFile(file) /\ ~file.archive.readable

\* C18: an unreadable archive among the inputs of an intake contributes no
\* items and raises exactly one alert, and the other inputs, before and after
\* it, are queued as if it had not been supplied.
C18_BadArchiveIsolated ==
    pout # Null =>
        LET others == SelectSeq(pin, LAMBDA f : ~IsBadArchive(f))
        IN  /\ pout.alerts = Len(pin) - Len(others)
            /\ files = NewFiles(NamesOfList(others), 1)

\* C18 witness: an image, an unreadable archive and a readable archive were
\* handed over together: one alert, and the image and the archive's image are
\* queued.
C18_Witness ==
    /\ pout # Null
    /\ pin = <<FileAPng, ZipHalfRead, ZipGood>>
    /\ pout.alerts = 1
    /\ Len(files) = 2
    /\ files[1].originalName = NameAPng /\ files[2].originalName = NameAPng

\* the decimal text of the sizes tried
SizeText(n) ==
    CASE n = 1 -> <<"1">>
      [] n = 10 -> <<"1", "0">>
      [] n = 300 -> <<"3", "0", "0">>
      [] n = 1080 -> <<"1", "0", "8", "0">>

\* the subtype of a MIME type, in characters
SubtypeText(format) ==
    CASE format = <<"image", "jpeg">> -> <<"j", "p", "e", "g">>
      [] format = <<"image", "png">> -> <<"p", "n", "g">>
      [] format = <<"image", "webp">> -> <<"w", "e", "b", "p">>

\* name without its last extension: what precedes the last dot, the whole name
\* when there is no dot
WithoutLastExtension(name) ==
    LET dots == {k \in 1..Len(name) : name[k] = "."}
    IN  IF dots = {} THEN name
        ELSE SubSeq(name, 1, (CHOOSE k \in dots : \A j \in dots : j <= k) - 1)

\* as WithoutLastExtension, but a name with nothing before its last dot is
\* kept whole
WithoutLastExtensionOrWhole(name) ==
    IF WithoutLastExtension(name) = <<>> THEN name ELSE WithoutLastExtension(name)

\* {base}_{width}x{height}_converted.{ext}, or {base}_converted.{ext} when the
\* original size is kept
SchemeName(base, cfg) ==
    IF cfg.keepOriginalSize
    THEN base \o <<"_", "c", "o", "n", "v", "e", "r", "t", "e", "d", ".">> \o SubtypeText(cfg.format)
    ELSE base \o <<"_">> \o SizeText(cfg.width) \o <<"x">> \o SizeText(cfg.height)
         \o <<"_", "c", "o", "n", "v", "e", "r", "t", "e", "d", ".">> \o SubtypeText(cfg.format)

\* C19 (as stated): the download of a single success is named
\* {base}_{width}x{height}_converted.{ext}, or {base}_converted.{ext} when the
\* original size is kept, base being the original name with its last extension
\* removed; the entries of the archive of several successes are named alike.
C19_OutputNames ==
    pout # Null =>
        /\ pout.download = SchemeName(WithoutLastExtension(pin.originalName), pin.cfg)
        /\ pout.entries = {SchemeName(WithoutLastExtension(pin.originalName), pin.cfg),
                           SchemeName(WithoutLastExtension(NameBPng), pin.cfg)}

\* C19 (amended): as stated, with base the part of the original name before
\* its last dot, or the whole original name when nothing precedes its last
\* dot (a name such as .png) or it has no dot.
C19_OutputNamesOrWhole ==
    pout # Null =>
        /\ pout.download = SchemeName(WithoutLastExtensionOrWhole(pin.originalName), pin.cfg)
        /\ pout.entries = {SchemeName(WithoutLastExtensionOrWhole(pin.originalName), pin.cfg),
                           SchemeName(WithoutLastExtensionOrWhole(NameBPng), pin.cfg)}

\* C19 witness: photo.png at 300x300 as PNG is offered as
\* photo_300x300_converted.png.
C19_Witness ==
    /\ pout # Null
    /\ pin.originalName = NamePhotoPng
    /\ pin.cfg.width = 300 /\ pin.cfg.height = 300
    /\ ~pin.cfg.keepOriginalSize /\ pin.cfg.format = FormatPNG
    /\ pout.download = <<"p", "h", "o", "t", "o", "_", "3", "0", "0", "x", "3", "0", "0",
                         "_", "c", "o", "n", "v", "e", "r", "t", "e", "d", ".", "p", "n", "g">>
    /\ pout.download \in pout.entries

\* the items of the run's array whose blob was written by this step
NewlyEncoded == {k \in 1..Len(updatedFiles') :
                    /\ updatedFiles'[k].processedBlob # Null
                    /\ (k > Len(updatedFiles)
                        \/ updatedFiles'[k].processedBlob # updatedFiles[k].processedBlob
                        \/ (pc = "processImage" /\ k = i
                            /\ updatedFiles'[k].status = "success"))}

\* the artifact saved by this step is named after, and laid out by, cfg
SavedUnder(cfg) ==
    Len(saved') > Len(saved) =>
        LET a == saved'[Len(saved')]
        IN  IF a.kind = "file"
            THEN \E f \in {updatedFiles'[k] : k \in 1..Len(updatedFiles')} :
                    /\ a.data = f.processedBlob
                    /\ a.name = OutputFileName(f.originalName, cfg)
            ELSE a.data = PackageZip(updatedFiles', cfg)

\* C20: a run uses one snapshot of the configuration, taken when it starts:
\* the snapshot is the configuration at the start, it does not change while
\* the run is in progress whatever the user edits, every item is encoded with
\* it and the names of the artifact, folder and entries are derived from it.
C20_OneSnapshotPerRun ==
    [][/\ (pc = "idle" /\ pc' # "idle" => runConfig' = config)
       /\ (pc # "idle" => runConfig' = runConfig)
       /\ \A k \in NewlyEncoded : updatedFiles'[k].processedBlob.cfg = runConfig'
       /\ SavedUnder(runConfig')]_vars

\* C20 witness: the configuration was edited while the run was in progress
\* (it differs from the snapshot before the run has ended), and every item
\* has been encoded with the snapshot; the archive is about to be built.
C20_Witness ==
    /\ pc = "packageZip"
    /\ config # runConfig
    /\ Len(updatedFiles) >= 2
    /\ \A k \in 1..Len(updatedFiles) :
          /\ updatedFiles[k].status = "success"
          /\ updatedFiles[k].processedBlob.cfg = runConfig

\* C21: clearing the queue discards every item: an item that is not in the
\* queue enters it only by being uploaded (as a new item, with a new id), so
\* nothing that clearAll discarded comes back, also when clearAll is invoked
\* while a run is in progress.
C21_ClearedItemsStayOut ==
    [][\A id \in IdsOf(files') \ IdsOf(files) : id > nextId]_vars

\* C22: an item accepted by intake stays in the queue until the user removes
\* it individually or clears the queue: only those two operations take an item
\* out of the queue, so an item added while a run is in progress is still
\* there when the run has finished.
C22_ItemsStayUntilRemoved ==
    [][\/ IdsOf(files) \subseteq IdsOf(files')
       \/ ClearAll
       \/ \E id \in 1..MaxIds : RemoveFile(id)]_vars

\* C23: in every reachable state a preview URL is live if and only if its item
\* is in the queue.
C23_PreviewLiveIffQueued == LivePreviews = IdsOf(files)

\* C24: in every reachable state, over any number of runs on the same queue,
\* an item carries an output blob if and only if its status is success, and
\* an error message if and only if its status is error.
C24_BlobIffSuccess ==
    \A k \in 1..Len(files) :
        /\ (files[k].processedBlob # Null) <=> (files[k].status = "success")
        /\ (files[k].errorMessage # Null) <=> (files[k].status = "error")

\* C25: after any sequence of width edits, height edits and aspect-ratio
\* selections the configured width and height are both at least 1.
C25_DimensionsPositive == config.width >= 1 /\ config.height >= 1

\* C25: the widest preset is selected, 0 has been typed into the width input
\* (clamped to 1), and the derived height 1 / (16/9) = 0.5625 was rounded to 1.
C25_Witness ==
    /\ config.aspectRatio = "16:9"
    /\ config.width = 1
    /\ config.height = 1

\* C26: in the assistant panel at most one advice request is in flight at a
\* time, isLoading is false exactly when no request is outstanding, and after
\* the welcome message the list alternates user question / model reply.
C26_OneRequestInFlight ==
    /\ Cardinality(outstanding) <= 1
    /\ isLoading <=> outstanding # {}
    /\ \A k \in 2..Len(messages) :
          messages[k].role = IF k % 2 = 0 THEN "user" ELSE "model"

====
